---------------------------- MODULE Spec2Model ----------------------------
(***************************************************************************)
(* A model of src/lib/dcp_video_frame.cc: a DCPVideoFrame (one frame job), *)
(* its local encode (codec parameters, codec resources and their release), *)
(* its remote encode over a socket, and EncodedData::write / send.         *)
(*                                                                         *)
(* Bytes are numbers 0..255 and strings are sequences of bytes, so that    *)
(* the text a stringstream produces and the text atoi/strlen read are      *)
(* computed, not assumed.                                                  *)
(***************************************************************************)
EXTENDS Integers, Sequences, FiniteSets, TLC

VARIABLES
    \* ---- EncodedData::write
    w_pc,        \* position inside write(): idle, fopen, fwrite, fclose, rename, returned, threw, killed
    w_data,      \* the EncodedData's _data (its _size is Len(w_data))
    w_prev,      \* what the final path held before the call
    fs,          \* the two paths of the frame: fs.tmp and fs.final
    w_stored,    \* what fwrite returned: the number of bytes it stored
    w_err,       \* the exception write() left with, or NoError
    \* ---- DCPVideoFrame construction and Config
    config,      \* Config::instance(): colour_lut_index and j2k_bandwidth
    job,         \* the DCPVideoFrame's fields (NoJob before construction)
    \* ---- DCPVideoFrame::encode_remotely (client) and the encode server
    r_pc,        \* position inside encode_remotely
    r_plane,     \* the plane index i of the loop of lines 326-328
    ops,         \* every socket operation the client has issued, in order
    c2s,         \* the bytes the client has written to the connection
    s2c,         \* the bytes the server has written and the client has not read
    s_pc,        \* the server's position inside EncodedData::send
    s_enc,       \* the server's EncodedData (the bytes it answers with)
    s_sent,      \* every byte the server has written to the connection
    sock_buf,    \* Socket's buffer of bytes read and not yet consumed
    buffer,      \* char buffer[32] of encode_remotely
    e_size,      \* _size of the RemotelyEncodedData e, or -1 before it exists
    e_data,      \* _data of e, as far as it is filled
    r_result,    \* what encode_remotely returned, or NoResult
    r_err,       \* the exception encode_remotely left with, or NoError
    log,         \* the lines written to _log
    \* ---- DCPVideoFrame::encode_locally, codec parameters
    p_pc,        \* position inside encode_locally: idle, prepare, container, transform,
                 \* derive, derived, encode, returned, threw
    max_cs_len,  \* int const max_cs_len
    max_comp_size, \* int const max_comp_size
    ptr,         \* _image, _parameters (and its cp_comment), _cinfo, _cio: 0 or a block of heap
    heap,        \* every block the codec calls allocated for the job, and how often each was freed
    pixels,      \* how many pixels of _image the loop of lines 175-196 has written
    l_result,    \* what encode_locally returned, or NoResult
    l_err,       \* the exception encode_locally left with, or NoError
    l_read,      \* what a write() or send() of the returned EncodedData read, or NotRead
    workers,    \* the jobs of two worker threads that encode at the same time
    prepared,   \* plane 0 of the prepared image: prepared->data()[0]
    img_writes, \* what each pass of the loop of lines 176-196 read and wrote
    s_ops,      \* every socket operation EncodedData::send has issued, in order
    writers,    \* two write() calls at the same time: each thread's position, frame and FILE
    files       \* the directory they write into: path -> file, and the bytes of each file

w_vars == <<w_pc, w_data, w_prev, fs, w_stored, w_err>>
c_vars == <<config, job>>
r_vars == <<r_pc, r_plane, ops, c2s, s2c, s_pc, s_enc, s_sent, sock_buf, buffer,
            e_size, e_data, r_result, r_err, log>>
p_vars == <<p_pc, max_cs_len, max_comp_size, ptr, heap, pixels, l_result, l_err, l_read>>
vars == <<w_vars, c_vars, r_vars, p_vars, workers, prepared, img_writes, s_ops, writers, files>>

---------------------------------------------------------------------------
(* Bounds of the model *)

\* The longest EncodedData buffer
MaxLen == 2
\* The lengths of the two long EncodedData buffers
LongLen == 10
LongerLen == 40
\* How many frames are encoded locally with success before no further job is made
MaxLocalFrames == 2
\* encode_locally is entered again on a job only while the heap has at most this many blocks
MaxBlocks == 5
\* How many times the configuration is changed while a job exists
MaxConfigChanges == 1
\* Bandwidths 1..MaxSmallBandwidth are tried besides the cinema ones
MaxSmallBandwidth == 20

\* The byte values buffers are made of: NUL, the digit '1', and a high byte
ByteValues == {0, 49, 200}

RECURSIVE SeqsUpTo(_, _)
SeqsUpTo(S, n) ==
    IF n = 0 THEN {<<>>}
    ELSE LET shorter == SeqsUpTo(S, n - 1)
         IN  shorter \cup {Append(s, b) : s \in {t \in shorter : Len(t) = n - 1}, b \in S}

\* A buffer of n bytes in which NUL, digits and other bytes alternate
Pattern(n) == [i \in 1..n |-> IF i % 3 = 0 THEN 0 ELSE 48 + (i % 7)]

\* Every short buffer, and two long ones: one whose length has two digits, and one
\* that does not fit the 32 bytes of the header buffer of encode_remotely
Buffers == SeqsUpTo(ByteValues, MaxLen) \cup {Pattern(LongLen), Pattern(LongerLen)}

---------------------------------------------------------------------------
(* Text: what operator<< (int), c_str, strlen and atoi do *)

Prefix(s, n) == SubSeq(s, 1, n)
Drop(s, n) == SubSeq(s, n + 1, Len(s))

RECURSIVE DigitsOf(_)
DigitsOf(n) ==
    IF n < 10 THEN <<48 + n>>
    ELSE Append(DigitsOf(n \div 10), 48 + (n % 10))

\* stringstream << int
StreamInt(n) == IF n < 0 THEN <<45>> \o DigitsOf(-n) ELSE DigitsOf(n)

\* strlen: the index of the first NUL, less one; Len(s) when there is none
RECURSIVE StrLen(_)
StrLen(s) ==
    IF s = <<>> \/ Head(s) = 0 THEN 0 ELSE 1 + StrLen(Tail(s))

HasNul(s) == \E i \in 1..Len(s) : s[i] = 0

IsDigit(b) == b >= 48 /\ b <= 57
IsSpace(b) == b = 32 \/ (b >= 9 /\ b <= 13)

RECURSIVE LeadingDigits(_, _)
LeadingDigits(s, acc) ==
    IF s = <<>> \/ ~IsDigit(Head(s)) THEN acc
    ELSE LeadingDigits(Tail(s), 10 * acc + (Head(s) - 48))

RECURSIVE SkipSpace(_)
SkipSpace(s) == IF s # <<>> /\ IsSpace(Head(s)) THEN SkipSpace(Tail(s)) ELSE s

\* atoi: white space, an optional sign, then digits up to the first non-digit
Atoi(s) ==
    LET t == SkipSpace(s)
    IN  IF t # <<>> /\ Head(t) = 45 THEN -LeadingDigits(Tail(t), 0)
        ELSE IF t # <<>> /\ Head(t) = 43 THEN LeadingDigits(Tail(t), 0)
        ELSE LeadingDigits(t, 0)

NoError == [kind |-> "none"]
NoResult == [size |-> -1, data |-> <<>>]

---------------------------------------------------------------------------
(* EncodedData::write *)

NoFile == [exists |-> FALSE, bytes |-> <<>>]
File(b) == [exists |-> TRUE, bytes |-> b]

\* errno values fopen can leave: EACCES and ENOSPC
Errnos == {13, 28}

\* opt->frame_out_path (frame, true) and (frame, false)
frame_out_path(tmp) == IF tmp THEN "tmp" ELSE "final"

\* write() is entered
write_call ==
    /\ w_pc = "idle"
    /\ w_pc' = "fopen"
    /\ UNCHANGED <<w_data, w_prev, fs, w_stored, w_err>>
    /\ UNCHANGED <<c_vars, r_vars, p_vars>>
    /\ UNCHANGED <<workers, prepared, img_writes, s_ops, writers, files>>

\* write() is entered on the EncodedData that encode_remotely returned
write_received ==
    /\ w_pc = "idle"
    /\ r_pc = "returned"
    /\ w_data' = r_result.data
    /\ w_pc' = "fopen"
    /\ UNCHANGED <<w_prev, fs, w_stored, w_err>>
    /\ UNCHANGED <<c_vars, r_vars, p_vars>>
    /\ UNCHANGED <<workers, prepared, img_writes, s_ops, writers, files>>

\* lines 362-364: what write() does with the FILE* fopen gave
write_after_fopen(f_ok, en) ==
    IF ~f_ok
    THEN [pc |-> "threw",
          err |-> [kind |-> "WriteFileError", file |-> frame_out_path(TRUE), errno |-> en]]
    ELSE [pc |-> "fwrite", err |-> NoError]

\* lines 360-364: fopen (tmp_j2k, "wb") creates or truncates the temporary file
write_fopen ==
    /\ w_pc = "fopen"
    /\ \E o \in {<<TRUE, 0>>} \cup {<<FALSE, en>> : en \in Errnos} :
         LET f_ok == o[1]
             a == write_after_fopen(f_ok, o[2])
         IN  /\ w_pc' = a.pc
             /\ w_err' = a.err
             /\ fs' = IF f_ok THEN [fs EXCEPT ![frame_out_path(TRUE)] = File(<<>>)] ELSE fs
    /\ UNCHANGED <<w_data, w_prev, w_stored>>
    /\ UNCHANGED <<c_vars, r_vars, p_vars>>
    /\ UNCHANGED <<workers, prepared, img_writes, s_ops, writers, files>>

\* line 366: fwrite (_data, 1, _size, f) stores n <= _size bytes and returns n;
\* the return value is not looked at
write_fwrite ==
    /\ w_pc = "fwrite"
    /\ \E n \in 0..Len(w_data) :
         /\ fs' = [fs EXCEPT ![frame_out_path(TRUE)] = File(Prefix(w_data, n))]
         /\ w_stored' = n
    /\ w_pc' = "fclose"
    /\ UNCHANGED <<w_data, w_prev, w_err>>
    /\ UNCHANGED <<c_vars, r_vars, p_vars>>
    /\ UNCHANGED <<workers, prepared, img_writes, s_ops, writers, files>>

\* line 367: fclose (f); its return value is not looked at
write_fclose ==
    /\ w_pc = "fclose"
    /\ w_pc' = "rename"
    /\ UNCHANGED <<w_data, w_prev, fs, w_stored, w_err>>
    /\ UNCHANGED <<c_vars, r_vars, p_vars>>
    /\ UNCHANGED <<workers, prepared, img_writes, s_ops, writers, files>>

\* line 370: filesystem::rename (tmp_j2k, final) replaces the final path in one step,
\* or throws filesystem_error and changes nothing
write_rename ==
    /\ w_pc = "rename"
    /\ \/ /\ fs' = [fs EXCEPT ![frame_out_path(FALSE)] = fs[frame_out_path(TRUE)],
                              ![frame_out_path(TRUE)] = NoFile]
          /\ w_pc' = "returned"
          /\ w_err' = w_err
       \/ /\ fs' = fs
          /\ w_pc' = "threw"
          /\ w_err' = [kind |-> "filesystem_error", file |-> frame_out_path(TRUE), errno |-> 13]
    /\ UNCHANGED <<w_data, w_prev, w_stored>>
    /\ UNCHANGED <<c_vars, r_vars, p_vars>>
    /\ UNCHANGED <<workers, prepared, img_writes, s_ops, writers, files>>

\* the process is killed between two steps of write()
write_kill ==
    /\ w_pc \in {"fopen", "fwrite", "fclose", "rename"}
    /\ w_pc' = "killed"
    /\ UNCHANGED <<w_data, w_prev, fs, w_stored, w_err>>
    /\ UNCHANGED <<c_vars, r_vars, p_vars>>
    /\ UNCHANGED <<workers, prepared, img_writes, s_ops, writers, files>>

---------------------------------------------------------------------------
(* Config and the DCPVideoFrame constructor *)

\* The post-processing strings tried: none, and "hb"
PostProcesses == {<<>>, <<104, 98>>}

\* Two input images: packed RGB24 (one plane) and YUV420P (three planes).
\* data[i] holds line_size[i] * lines[i] bytes; NUL and space occur in the pixels.
ImageRGB ==
    [width |-> 2, height |-> 1, pixel_format |-> 2, components |-> 1,
     line_size |-> <<6>>, lines |-> <<1>>,
     data |-> << <<10, 0, 12, 32, 14, 15>> >>]

ImageYUV ==
    [width |-> 2, height |-> 2, pixel_format |-> 0, components |-> 3,
     line_size |-> <<2, 1, 1>>, lines |-> <<2, 1, 1>>,
     data |-> << <<0, 32, 3, 4>>, <<5>>, <<48>> >>]

Images == {ImageRGB, ImageYUV}

LutIndexes == {0, 1}
Bandwidths == {50000000, 250000000}

NoJob == [constructed |-> FALSE]

\* rint (n / d): to the nearest integer, a tie to the even one
RoundHalfEven(n, d) ==
    LET q == n \div d
        r == n % d
    IN  IF 2 * r < d THEN q
        ELSE IF 2 * r > d THEN q + 1
        ELSE IF q % 2 = 0 THEN q ELSE q + 1

\* DCPVideoFrame::DCPVideoFrame; fps is given in thousandths of a frame
DCPVideoFrame(yuv, out, p, s, f, fps, pp, clut, bw) ==
    [constructed |-> TRUE,
     input |-> yuv,
     out_size |-> out,
     padding |-> p,
     scaler |-> s,
     frame |-> f,
     frames_per_second |-> RoundHalfEven(fps, 1000),
     post_process |-> pp,
     colour_lut_index |-> clut,
     j2k_bandwidth |-> bw]

\* A job for the remote path is made with the configuration's current values
construct ==
    /\ ~job.constructed
    /\ \E img \in Images, pp \in PostProcesses :
         job' = DCPVideoFrame(img, [width |-> 4, height |-> 3], 1, [id |-> 7],
                              IF img = ImageRGB THEN 0 ELSE 12, 23976, pp,
                              config.colour_lut_index, config.j2k_bandwidth)
    /\ UNCHANGED config
    /\ UNCHANGED <<w_vars, r_vars, p_vars>>
    /\ UNCHANGED <<workers, prepared, img_writes, s_ops, writers, files>>

\* FilmEditor::colour_lut_changed / j2k_bandwidth_changed: the user changes the
\* configuration while the job waits to be encoded.  Nothing reads Config after
\* the request header is built, so later changes are left out.
config_changed ==
    /\ job.constructed
    /\ r_pc \in {"idle", "connect", "header"}
    /\ config.changes < MaxConfigChanges
    /\ \E l \in LutIndexes, b \in Bandwidths :
         /\ <<l, b>> # <<config.colour_lut_index, config.j2k_bandwidth>>
         /\ config' = [colour_lut_index |-> l, j2k_bandwidth |-> b,
                       changes |-> config.changes + 1]
    /\ UNCHANGED job
    /\ UNCHANGED <<w_vars, r_vars, p_vars>>
    /\ UNCHANGED <<workers, prepared, img_writes, s_ops, writers, files>>

---------------------------------------------------------------------------
(* Socket: connect, write, read_indefinite, consume, read_definite_and_consume. *)
(* Each blocking operation completes in full or fails with NetworkError.        *)

NetworkError(what) == [kind |-> "NetworkError", op |-> what]

Socket_write_short(data, ok, k) ==
    IF ok THEN Prefix(data, Len(data) - 1) ELSE Prefix(data, k)

\* What a write of data puts on the connection: all of it, or, failing, its first k bytes
Socket_write(data, ok, k) == IF ok THEN data ELSE Prefix(data, k)

\* The outcomes of a write of data: success, or failure after k < Len(data) bytes
WriteOutcomes(data) == {<<TRUE, Len(data)>>} \cup {<<FALSE, k>> : k \in 0..(Len(data) - 1)}

\* read_indefinite (data, size, timeout) takes n more bytes from the connection: none
\* when a NUL is buffered already; otherwise enough to hold a NUL, or size bytes
Socket_can_read_indefinite(buf, wire, size, n) ==
    LET nb == buf \o Prefix(wire, n)
    IN  /\ n <= Len(wire)
        /\ Len(nb) <= size
        /\ HasNul(buf) => n = 0
        /\ HasNul(nb) \/ Len(nb) = size

\* consume (n)
Socket_consume(buf, n) == Drop(buf, n)

Min(a, b) == IF a < b THEN a ELSE b

---------------------------------------------------------------------------
(* DCPVideoFrame::encode_remotely *)

\* char buffer[32]
sizeof_buffer == 32

Space == <<32>>
Nul == <<0>>

\* lines 320-322: s << _input->line_size()[i] << " " for each component from i on
RECURSIVE line_sizes(_, _)
line_sizes(img, i) ==
    IF i > img.components THEN <<>>
    ELSE StreamInt(img.line_size[i]) \o Space \o line_sizes(img, i + 1)

\* lines 307-322: the text put into the stringstream s
request_header_swapped(j, cfg) ==
    <<101, 110, 99, 111, 100, 101, 32>>
    \o StreamInt(j.input.width) \o Space \o StreamInt(j.input.height) \o Space
    \o StreamInt(j.input.pixel_format) \o Space
    \o StreamInt(j.out_size.height) \o Space \o StreamInt(j.out_size.width) \o Space
    \o StreamInt(j.padding) \o Space
    \o StreamInt(j.scaler.id) \o Space
    \o StreamInt(j.frame) \o Space
    \o StreamInt(j.frames_per_second) \o Space
    \o (IF j.post_process = <<>> THEN <<110, 111, 110, 101>> ELSE j.post_process) \o Space
    \o StreamInt(cfg.colour_lut_index) \o Space
    \o StreamInt(cfg.j2k_bandwidth) \o Space
    \o line_sizes(j.input, 1)

request_header(j, cfg) ==
    <<101, 110, 99, 111, 100, 101, 32>>
    \o StreamInt(j.input.width) \o Space \o StreamInt(j.input.height) \o Space
    \o StreamInt(j.input.pixel_format) \o Space
    \o StreamInt(j.out_size.width) \o Space \o StreamInt(j.out_size.height) \o Space
    \o StreamInt(j.padding) \o Space
    \o StreamInt(j.scaler.id) \o Space
    \o StreamInt(j.frame) \o Space
    \o StreamInt(j.frames_per_second) \o Space
    \o (IF j.post_process = <<>> THEN <<110, 111, 110, 101>> ELSE j.post_process) \o Space
    \o StreamInt(cfg.colour_lut_index) \o Space
    \o StreamInt(cfg.j2k_bandwidth) \o Space
    \o line_sizes(j.input, 1)

\* line 327: the bytes of plane i that are written (planes are numbered from 1 here)
plane_bytes(img, i) == Prefix(img.data[i], img.line_size[i] * img.lines[i])

\* lines 320, 326: the loop over the planes; i counts the planes written
plane_loop_short(i, components) ==
    IF i + 1 < components THEN "planes" ELSE "read_indefinite"

plane_loop(i, components) ==
    IF i < components THEN "planes" ELSE "read_indefinite"

\* line 332: socket.consume (strlen (buffer) + 1)
consume_count_no_nul(b) == StrLen(b)

consume_count(b) == StrLen(b) + 1

\* lines 336-348: a failed read throws out of encode_remotely; a complete one is
\* logged and returned
after_read_definite_partial(ok, size, data, frame) ==
    [pc |-> "returned",
     err |-> NoError,
     result |-> [size |-> size, data |-> data],
     log |-> <<[text |-> "Finished remotely-encoded frame", frame |-> frame]>>]

after_read_definite(ok, size, data, frame) ==
    IF ok
    THEN [pc |-> "returned",
          err |-> NoError,
          result |-> [size |-> size, data |-> data],
          log |-> <<[text |-> "Finished remotely-encoded frame", frame |-> frame]>>]
    ELSE [pc |-> "threw",
          err |-> NetworkError("read_definite_and_consume"),
          result |-> NoResult,
          log |-> <<>>]

remote_call ==
    /\ job.constructed
    /\ r_pc = "idle"
    /\ r_pc' = "connect"
    /\ UNCHANGED <<c_vars, r_plane, ops, c2s, s2c, s_pc, s_enc, s_sent, sock_buf, buffer,
                   e_size, e_data, r_result, r_err, log>>
    /\ UNCHANGED <<w_vars, p_vars>>
    /\ UNCHANGED <<workers, prepared, img_writes, s_ops, writers, files>>

\* line 301: socket.connect (*endpoint_iterator, 30)
remote_connect ==
    /\ r_pc = "connect"
    /\ \E ok \in BOOLEAN :
         /\ ops' = Append(ops, [op |-> "connect", timeout |-> 30, ok |-> ok])
         /\ r_pc' = IF ok THEN "header" ELSE "threw"
         /\ r_err' = IF ok THEN r_err ELSE NetworkError("connect")
    /\ UNCHANGED <<c_vars, r_plane, c2s, s2c, s_pc, s_enc, s_sent, sock_buf, buffer,
                   e_size, e_data, r_result, log>>
    /\ UNCHANGED <<w_vars, p_vars>>
    /\ UNCHANGED <<workers, prepared, img_writes, s_ops, writers, files>>

\* lines 307-324: build the header from the job and from Config::instance(), and
\* write it with its terminating NUL
remote_write_header ==
    /\ r_pc = "header"
    /\ LET h == request_header(job, config) \o Nul
       IN  \E o \in WriteOutcomes(h) :
             /\ ops' = Append(ops, [op |-> "write", n |-> Len(h), timeout |-> 30, ok |-> o[1]])
             /\ c2s' = c2s \o Socket_write(h, o[1], o[2])
             /\ r_pc' = IF o[1] THEN plane_loop(0, job.input.components) ELSE "threw"
             /\ r_err' = IF o[1] THEN r_err ELSE NetworkError("write")
    /\ r_plane' = 0
    /\ UNCHANGED <<c_vars, s2c, s_pc, s_enc, s_sent, sock_buf, buffer,
                   e_size, e_data, r_result, log>>
    /\ UNCHANGED <<w_vars, p_vars>>
    /\ UNCHANGED <<workers, prepared, img_writes, s_ops, writers, files>>

\* lines 326-328: socket.write (_input->data()[i], line_size[i] * lines(i), 30)
remote_write_plane ==
    /\ r_pc = "planes"
    /\ LET d == plane_bytes(job.input, r_plane + 1)
       IN  \E o \in WriteOutcomes(d) :
             /\ ops' = Append(ops, [op |-> "write", n |-> Len(d), timeout |-> 30, ok |-> o[1]])
             /\ c2s' = c2s \o Socket_write(d, o[1], o[2])
             /\ r_pc' = IF o[1] THEN plane_loop(r_plane + 1, job.input.components) ELSE "threw"
             /\ r_err' = IF o[1] THEN r_err ELSE NetworkError("write")
    /\ r_plane' = r_plane + 1
    /\ UNCHANGED <<c_vars, s2c, s_pc, s_enc, s_sent, sock_buf, buffer,
                   e_size, e_data, r_result, log>>
    /\ UNCHANGED <<w_vars, p_vars>>
    /\ UNCHANGED <<workers, prepared, img_writes, s_ops, writers, files>>

\* lines 330-331: socket.read_indefinite ((uint8_t *) buffer, sizeof (buffer), 30)
remote_read_indefinite ==
    /\ r_pc = "read_indefinite"
    /\ \/ \E n \in 0..Len(s2c) :
            /\ Socket_can_read_indefinite(sock_buf, s2c, sizeof_buffer, n)
            /\ sock_buf' = sock_buf \o Prefix(s2c, n)
            /\ s2c' = Drop(s2c, n)
            /\ buffer' = sock_buf'
            /\ ops' = Append(ops, [op |-> "read_indefinite", n |-> sizeof_buffer,
                                   timeout |-> 30, ok |-> TRUE])
            /\ r_pc' = "new"
            /\ r_err' = r_err
       \/ /\ ~\E n \in 0..Len(s2c) : Socket_can_read_indefinite(sock_buf, s2c, sizeof_buffer, n)
          /\ ops' = Append(ops, [op |-> "read_indefinite", n |-> sizeof_buffer,
                                 timeout |-> 30, ok |-> FALSE])
          /\ r_pc' = "threw"
          /\ r_err' = NetworkError("read_indefinite")
          /\ UNCHANGED <<sock_buf, s2c, buffer>>
    /\ UNCHANGED <<c_vars, r_plane, c2s, s_pc, s_enc, s_sent, e_size, e_data, r_result, log>>
    /\ UNCHANGED <<w_vars, p_vars>>
    /\ UNCHANGED <<workers, prepared, img_writes, s_ops, writers, files>>

\* lines 394-398: RemotelyEncodedData (int s) : EncodedData (new uint8_t[s], s)
RemotelyEncodedData_longer(s) == [alloc |-> s, size |-> s + 1]

RemotelyEncodedData(s) == [alloc |-> s, size |-> s]

\* lines 332-333: socket.consume (strlen (buffer) + 1), then
\* new RemotelyEncodedData (atoi (buffer)), which allocates new uint8_t[s]
remote_new ==
    /\ r_pc = "new"
    /\ HasNul(buffer)
    /\ LET n == consume_count(buffer)
           s == Atoi(buffer)
           e == RemotelyEncodedData(s)
       IN  /\ sock_buf' = Socket_consume(sock_buf, n)
           /\ e_size' = e.size
           /\ ops' = ops \o <<[op |-> "consume", n |-> n, ok |-> TRUE],
                              [op |-> "new", n |-> e.alloc, ok |-> s >= 0]>>
           /\ r_pc' = IF s >= 0 THEN "read_definite" ELSE "threw"
           /\ r_err' = IF s >= 0 THEN r_err ELSE [kind |-> "bad_alloc", op |-> "new"]
    /\ e_data' = <<>>
    /\ UNCHANGED <<c_vars, r_plane, c2s, s2c, s_pc, s_enc, s_sent, buffer, r_result, log>>
    /\ UNCHANGED <<w_vars, p_vars>>
    /\ UNCHANGED <<workers, prepared, img_writes, s_ops, writers, files>>

\* lines 336-348: socket.read_definite_and_consume (e->data(), e->size(), 30): bytes
\* come from the socket's buffer first and then from the connection; then the log
\* line and the return
remote_read_definite ==
    /\ r_pc = "read_definite"
    /\ LET avail == sock_buf \o s2c
           ok == Len(avail) >= e_size
           got == Prefix(avail, Min(e_size, Len(avail)))
           from_buffer == Min(Len(sock_buf), Len(got))
           a == after_read_definite(ok, e_size, got, job.frame)
       IN  /\ e_data' = got
           /\ sock_buf' = Socket_consume(sock_buf, from_buffer)
           /\ s2c' = Drop(s2c, Len(got) - from_buffer)
           /\ ops' = Append(ops, [op |-> "read_definite_and_consume", n |-> e_size,
                                  timeout |-> 30, ok |-> ok])
           /\ r_pc' = a.pc
           /\ r_err' = a.err
           /\ r_result' = a.result
           /\ log' = log \o a.log
    /\ UNCHANGED <<c_vars, r_plane, c2s, s_pc, s_enc, s_sent, buffer, e_size>>
    /\ UNCHANGED <<w_vars, p_vars>>
    /\ UNCHANGED <<workers, prepared, img_writes, s_ops, writers, files>>

---------------------------------------------------------------------------
(* The encode server: it takes the whole request and answers with EncodedData::send *)

RECURSIVE request_plane_bytes(_, _)
request_plane_bytes(img, i) ==
    IF i > img.components THEN 0
    ELSE img.line_size[i] * img.lines[i] + request_plane_bytes(img, i + 1)

\* The server has the header, its NUL, and every byte of every plane
request_received ==
    /\ job.constructed
    /\ HasNul(c2s)
    /\ Len(c2s) = StrLen(c2s) + 1 + request_plane_bytes(job.input, 1)

\* lines 379-381: s << _size; the text and its terminating NUL are written
send_header_no_nul(size) == StreamInt(size)

send_header(size) == StreamInt(size) \o Nul

\* lines 381-382: the timeout given to the write of the size and to that of the data
send_timeout_long_data(which) == IF which = "data" THEN 60 ELSE 30

send_timeout(which) == 30

\* The server has encoded the frame; its EncodedData is any buffer
server_call ==
    /\ s_pc = "wait"
    /\ request_received
    /\ s_enc' \in Buffers
    /\ s_pc' = "send_size"
    /\ UNCHANGED <<c_vars, r_pc, r_plane, ops, c2s, s2c, s_sent, sock_buf, buffer,
                   e_size, e_data, r_result, r_err, log>>
    /\ UNCHANGED <<w_vars, p_vars>>
    /\ UNCHANGED <<workers, prepared, img_writes, s_ops, writers, files>>

\* line 381: socket->write ((uint8_t *) s.str().c_str(), s.str().length() + 1, 30)
send_size ==
    /\ s_pc = "send_size"
    /\ LET h == send_header(Len(s_enc))
       IN  \E o \in WriteOutcomes(h) :
             /\ s2c' = s2c \o Socket_write(h, o[1], o[2])
             /\ s_sent' = s_sent \o Socket_write(h, o[1], o[2])
             /\ s_ops' = Append(s_ops, [op |-> "write", n |-> Len(h),
                                        timeout |-> send_timeout("size"), ok |-> o[1]])
             /\ s_pc' = IF o[1] THEN "send_data" ELSE "threw"
    /\ UNCHANGED <<c_vars, r_pc, r_plane, ops, c2s, s_enc, sock_buf, buffer,
                   e_size, e_data, r_result, r_err, log>>
    /\ UNCHANGED <<w_vars, p_vars>>
    /\ UNCHANGED <<workers, prepared, img_writes, writers, files>>

\* line 382: socket->write (_data, _size, 30)
send_data ==
    /\ s_pc = "send_data"
    /\ \E o \in WriteOutcomes(s_enc) :
         /\ s2c' = s2c \o Socket_write(s_enc, o[1], o[2])
         /\ s_sent' = s_sent \o Socket_write(s_enc, o[1], o[2])
         /\ s_ops' = Append(s_ops, [op |-> "write", n |-> Len(s_enc),
                                    timeout |-> send_timeout("data"), ok |-> o[1]])
         /\ s_pc' = IF o[1] THEN "returned" ELSE "threw"
    /\ UNCHANGED <<c_vars, r_pc, r_plane, ops, c2s, s_enc, sock_buf, buffer,
                   e_size, e_data, r_result, r_err, log>>
    /\ UNCHANGED <<w_vars, p_vars>>
    /\ UNCHANGED <<workers, prepared, img_writes, writers, files>>

---------------------------------------------------------------------------
(* A server that answers with any bytes, and a header that fills the buffer *)

\* Answers that are not what EncodedData::send writes, and one that is: an empty
\* header, a header that is no number, one with a letter after its digit, a negative
\* one, more than sizeof (buffer) bytes without a NUL, and "2" with its two bytes
Responses ==
    {<<0>>,
     <<120, 0>>,
     <<49, 120, 0, 200>>,
     <<45, 53, 0>>,
     [i \in 1..(sizeof_buffer + 2) |-> IF i = 1 THEN 49 ELSE 200],
     <<50, 0, 200, 201>>}

\* The server answers the whole request with one of these
server_any ==
    /\ s_pc = "wait"
    /\ request_received
    /\ \E a \in Responses :
         /\ s2c' = s2c \o a
         /\ s_sent' = a
    /\ s_pc' = "returned"
    /\ UNCHANGED <<c_vars, r_pc, r_plane, ops, c2s, s_enc, sock_buf, buffer,
                   e_size, e_data, r_result, r_err, log>>
    /\ UNCHANGED <<w_vars, p_vars>>
    /\ UNCHANGED <<workers, prepared, img_writes, s_ops, writers, files>>

\* What lies in memory after buffer[31], up to the first zero byte: strlen and atoi
\* read on into it when buffer holds no NUL, which is undefined
StrayBytes == {<<>>, <<55>>, <<200, 9>>}

\* lines 332-333 when the 32 bytes of buffer hold no NUL: strlen (buffer) counts
\* past the end of the array, and consume is given that count + 1
remote_new_unterminated ==
    /\ r_pc = "new"
    /\ ~HasNul(buffer)
    /\ \E stray \in StrayBytes :
         LET n == consume_count(buffer \o stray)
             s == Atoi(buffer \o stray)
             e == RemotelyEncodedData(s)
         IN  /\ sock_buf' = Socket_consume(sock_buf, n)
             /\ e_size' = e.size
             /\ ops' = ops \o <<[op |-> "consume", n |-> n, ok |-> TRUE],
                                [op |-> "new", n |-> e.alloc, ok |-> s >= 0]>>
             /\ r_pc' = IF s >= 0 THEN "read_definite" ELSE "threw"
             /\ r_err' = IF s >= 0 THEN r_err ELSE [kind |-> "bad_alloc", op |-> "new"]
    /\ e_data' = <<>>
    /\ UNCHANGED <<c_vars, r_plane, c2s, s2c, s_pc, s_enc, s_sent, buffer, r_result, log>>
    /\ UNCHANGED <<w_vars, p_vars>>
    /\ UNCHANGED <<workers, prepared, img_writes, s_ops, writers, files>>

---------------------------------------------------------------------------
(* DCPVideoFrame::encode_locally: the codec parameters.  Single-precision *)
(* arithmetic is computed on integers: a float is a 24-bit significand    *)
(* times a power of two, and each operation rounds to the nearest one, a  *)
(* tie to the even significand.                                           *)

RECURSIVE Pow2(_)
Pow2(k) == IF k = 0 THEN 1 ELSE 2 * Pow2(k - 1)

\* The least e >= from with n / 2^e below 2^24
RECURSIVE ShiftDown(_, _)
ShiftDown(n, from) ==
    IF n \div Pow2(from) < Pow2(24) THEN from ELSE ShiftDown(n, from + 1)

\* (float) n, for an int n >= 0
FloatOfInt(n) ==
    LET e == ShiftDown(n, 0)
    IN  RoundHalfEven(n, Pow2(e)) * Pow2(e)

\* a * 2^u / d as a fraction, for u of either sign
ScaledNum(a, u) == IF u >= 0 THEN a * Pow2(u) ELSE a
ScaledDen(d, u) == IF u >= 0 THEN d ELSE d * Pow2(-u)

\* The least u >= from with a * 2^u / d at least 2^23
RECURSIVE ShiftUp(_, _, _)
ShiftUp(a, d, from) ==
    IF ScaledNum(a, from) \div ScaledDen(d, from) >= Pow2(23) THEN from
    ELSE ShiftUp(a, d, from + 1)

\* (int) (a / 8 / d) for a float a > 0 of integer value and an int d > 0: a / 8 is
\* exact, the quotient by d is rounded to a float, the conversion to int truncates
TruncFloatQuotient(a, d) ==
    LET u == ShiftUp(a, d, -8)
        m == RoundHalfEven(ScaledNum(a, u), ScaledDen(d, u))
        t == u + 3
    IN  IF t > 24 THEN 0                 \* m <= 2^24, so the value is below 1
        ELSE IF t >= 0 THEN m \div Pow2(t)
        ELSE m * Pow2(-t)

\* int is 32 bits wide
INT_MAX == 2147483647
INT_MIN == -INT_MAX - 1

\* (int) of a float that is infinite or not a number is undefined: the conversion
\* instruction gives INT_MIN, a saturating one INT_MAX, or 0 for not-a-number
UndefinedInt == {INT_MIN, 0, INT_MAX}

\* line 199: int const max_cs_len = ((float) _j2k_bandwidth) / 8 / _frames_per_second,
\* for a frame rate above 0; the float quotient keeps the sign of the bandwidth
max_cs_len_of(bw, fps) ==
    IF bw = 0 THEN 0
    ELSE IF bw < 0 THEN -TruncFloatQuotient(FloatOfInt(-bw), fps)
    ELSE TruncFloatQuotient(FloatOfInt(bw), fps)

\* line 199 for any frame rate: a division by 0 gives an infinity (or not-a-number for
\* 0 / 0), and nothing in the code stops it
max_cs_len_values(bw, fps) ==
    IF fps = 0 THEN UndefinedInt ELSE {max_cs_len_of(bw, fps)}

\* line 200: int const max_comp_size = max_cs_len / 1.25, a double truncated toward zero
max_comp_size_rounded_up(cs) == cs - (cs \div 5)

max_comp_size_of(cs) ==
    IF cs >= 0 THEN cs - (cs \div 5) - (IF cs % 5 = 0 THEN 0 ELSE 1)
    ELSE cs - (cs \div 5)

\* The frame rates tried, in thousandths (400 rounds to 0), and the bandwidths
FrameRates == {400, 23976, 24000, 24500, 25000, 25500, 29970, 30000, 48000, 50000, 60000}
LocalBandwidths ==
    {-1, 0} \cup (1..MaxSmallBandwidth) \cup {50000000, 100000000, 125000000, 125000063, 250000000}

\* The codestreams the codec may produce
CodecOutputs == {Pattern(MaxLen), Pattern(LongLen)}

\* lines 90-93: _image (0), _parameters (0), _cinfo (0), _cio (0); cp_comment and
\* cp_matrice are fields of *_parameters, and cp_matrice is never given a block
NullPtrs ==
    [image |-> 0, parameters |-> 0, cp_comment |-> 0, cp_matrice |-> 0, cinfo |-> 0, cio |-> 0]

\* A block as the allocating call leaves it
Block(kind) == [kind |-> kind, frees |-> 0, bytes |-> <<>>]

\* A release call on block id; on a null pointer free and delete do nothing
release_nothing(h, id) == h

release(h, id) == IF id = 0 THEN h ELSE [h EXCEPT ![id].frees = @ + 1]

RECURSIVE release_all(_, _)
release_all(h, ids) ==
    IF ids = <<>> THEN h ELSE release_all(release(h, Head(ids)), Tail(ids))

\* exceptions.h: EncodeError
EncodeError(what) == [kind |-> "EncodeError", what |-> what]

NotRead == [read |-> FALSE]

---------------------------------------------------------------------------
(* The colour transform of lines 173-196.  lut.h is not among the sources: the   *)
(* tables below have the sizes and ranges the pipeline is described with, and    *)
(* hold whole numbers (a value v stands for v / 4095, a coefficient c for        *)
(* c / 1000) where the code's tables hold doubles.                               *)

\* The number of entries of an input table and of the DCI output table
COLOR_DEPTH == 4096
DCI_LUT_SIZE == 4096

\* lut_in[l][k], for k in 0..4095
lut_in(l, k) == IF l = 0 THEN (k * k) \div (COLOR_DEPTH - 1) ELSE k

\* color_matrix[l]
color_matrix(l) ==
    IF l = 0
    THEN << <<412, 358, 180>>, <<213, 715, 72>>, <<19, 119, 951>> >>
    ELSE << <<431, 342, 178>>, <<222, 707, 71>>, <<20, 130, 939>> >>

\* lut_out[LO_DCI][k], for k in 0..4095: a 12-bit value
lut_out(k) == (DCI_LUT_SIZE - 1) - (((DCI_LUT_SIZE - 1) - k) * ((DCI_LUT_SIZE - 1) - k)) \div (DCI_LUT_SIZE - 1)

\* lines 177-179: *p++ << 4
in_index(byte) == byte * 16

\* lines 182-189 and the casts of 192-194: (int) (d * DCI_COEFFICENT * (DCI_LUT_SIZE - 1)),
\* with DCI_COEFFICENT = 48 / 52.37
out_index(l, s, row) ==
    LET mx == color_matrix(l)[row]
    IN  ((s[1] * mx[1] + s[2] * mx[2] + s[3] * mx[3]) * 48) \div 52370

\* lines 177-194 for one pixel: the three values written to the components
ColourTransform(l, rgb) ==
    LET s == [c \in 1..3 |-> lut_in(l, in_index(rgb[c]))]
    IN  [row \in 1..3 |-> lut_out(out_index(l, s, row))]

\* lines 177-179: the offsets of the three bytes that pass i reads through p
pixel_offsets_bgr(i) == <<3 * i + 2, 3 * i + 1, 3 * i>>

pixel_offsets(i) == <<3 * i, 3 * i + 1, 3 * i + 2>>

\* lines 177-194: the table the job's passes use
lut_of_config(j, cfg) == cfg.colour_lut_index

lut_of(j, cfg) == j.colour_lut_index

\* lines 176-196: for (int i = 0; i < size; ++i): what each pass read and wrote
RECURSIVE pixel_loop(_, _, _, _)
pixel_loop(i, size, data, l) ==
    IF i >= size THEN <<>>
    ELSE LET at == pixel_offsets(i)
             rgb == [c \in 1..3 |-> data[at[c] + 1]]
         IN  <<[i |-> i,
                read |-> at,
                index |-> [c \in 1..3 |-> in_index(rgb[c])],
                xyz |-> ColourTransform(l, rgb)]>>
             \o pixel_loop(i + 1, size, data, l)

\* What scale_and_convert_to_rgb may give for an output size: packed RGB, three bytes
\* a pixel; one image of many values, one of the extreme bytes with equal pixels
PreparedImages(size) ==
    {[k \in 1..(3 * size.width * size.height) |-> (k * 37) % 256],
     [k \in 1..(3 * size.width * size.height) |-> IF (k - 1) % 6 < 3 THEN 255 ELSE 0]}

\* A job for the local path
construct_local ==
    /\ ~job.constructed
    /\ p_pc = "idle"
    /\ Len(log) < MaxLocalFrames
    /\ \E fps \in FrameRates, bw \in LocalBandwidths :
         job' = DCPVideoFrame(ImageRGB, [width |-> 2, height |-> 1], 0, [id |-> 7],
                              0, fps, <<>>, config.colour_lut_index, bw)
    /\ ptr' = NullPtrs
    /\ heap' = <<>>
    /\ pixels' = 0
    /\ l_result' = NoResult
    /\ l_err' = NoError
    /\ l_read' = NotRead
    /\ prepared' = <<>>
    /\ img_writes' = <<>>
    /\ UNCHANGED <<config, p_pc, max_cs_len, max_comp_size>>
    /\ UNCHANGED <<w_vars, r_vars>>
    /\ UNCHANGED <<workers, s_ops, writers, files>>

\* encode_locally is entered; its locals hold nothing yet
local_call ==
    /\ job.constructed
    /\ p_pc = "idle"
    /\ p_pc' = "prepare"
    /\ UNCHANGED <<c_vars, max_cs_len, max_comp_size, ptr, heap, pixels, l_result, l_err, l_read>>
    /\ UNCHANGED <<w_vars, r_vars>>
    /\ UNCHANGED <<workers, prepared, img_writes, s_ops, writers, files>>

\* encode_locally is entered on a job that has no block yet
local_call_first == local_call /\ heap = <<>>

\* encode_locally is entered once more on the job it has returned from or left by a
\* throw; the members of the job are as that call left them
local_call_again ==
    /\ job.constructed
    /\ p_pc \in {"returned", "threw"}
    /\ Len(heap) <= MaxBlocks
    /\ p_pc' = "prepare"
    /\ l_err' = NoError
    /\ UNCHANGED <<c_vars, max_cs_len, max_comp_size, ptr, heap, pixels, l_result, l_read>>
    /\ UNCHANGED <<w_vars, r_vars>>
    /\ UNCHANGED <<workers, prepared, img_writes, s_ops, writers, files>>

\* lines 153-159: post_process and scale_and_convert_to_rgb give the prepared image or throw
local_prepare ==
    /\ p_pc = "prepare"
    /\ \E ok \in BOOLEAN, img \in PreparedImages(job.out_size) :
         /\ p_pc' = IF ok THEN "container" ELSE "threw"
         /\ l_err' = IF ok THEN l_err ELSE [kind |-> "exception", what |-> "prepare"]
         /\ prepared' = IF ok THEN img ELSE prepared
    /\ UNCHANGED <<c_vars, max_cs_len, max_comp_size, ptr, heap, pixels, l_result, l_read>>
    /\ UNCHANGED <<w_vars, r_vars>>
    /\ UNCHANGED <<workers, img_writes, s_ops, writers, files>>

\* lines 114-117: _image = opj_image_create (...); if (_image == 0) throw EncodeError
after_opj_image_create_static(made, p, h) ==
    IF made
    THEN [pc |-> "transform",
          err |-> NoError,
          ptr |-> [p EXCEPT !.image = 1],
          heap |-> IF h = <<>> THEN Append(h, Block("image")) ELSE h]
    ELSE [pc |-> "threw",
          err |-> EncodeError("could not create libopenjpeg image"),
          ptr |-> p,
          heap |-> h]

after_opj_image_create(made, p, h) ==
    IF made
    THEN [pc |-> "transform",
          err |-> NoError,
          ptr |-> [p EXCEPT !.image = Len(h) + 1],
          heap |-> Append(h, Block("image"))]
    ELSE [pc |-> "threw",
          err |-> EncodeError("could not create libopenjpeg image"),
          ptr |-> p,
          heap |-> h]

\* line 161: create_openjpeg_container ()
local_container ==
    /\ p_pc = "container"
    /\ \E made \in BOOLEAN :
         LET a == after_opj_image_create(made, ptr, heap)
         IN  /\ p_pc' = a.pc
             /\ l_err' = IF made THEN l_err ELSE a.err
             /\ ptr' = a.ptr
             /\ heap' = a.heap
    /\ UNCHANGED <<c_vars, max_cs_len, max_comp_size, pixels, l_result, l_read>>
    /\ UNCHANGED <<w_vars, r_vars>>
    /\ UNCHANGED <<workers, prepared, img_writes, s_ops, writers, files>>

\* lines 163-196: every pixel of the prepared image is transformed into _image
local_transform ==
    /\ p_pc = "transform"
    /\ pixels' = job.out_size.width * job.out_size.height
    /\ img_writes' = pixel_loop(0, job.out_size.width * job.out_size.height, prepared,
                                lut_of(job, config))
    /\ p_pc' = "derive"
    /\ UNCHANGED <<c_vars, max_cs_len, max_comp_size, ptr, heap, l_result, l_err, l_read>>
    /\ UNCHANGED <<w_vars, r_vars>>
    /\ UNCHANGED <<workers, prepared, s_ops, writers, files>>

\* lines 198-200
local_parameters ==
    /\ p_pc = "derive"
    /\ max_cs_len' \in max_cs_len_values(job.j2k_bandwidth, job.frames_per_second)
    /\ max_comp_size' = max_comp_size_of(max_cs_len')
    /\ p_pc' = "derived"
    /\ UNCHANGED <<c_vars, ptr, heap, pixels, l_result, l_err, l_read>>
    /\ UNCHANGED <<w_vars, r_vars>>
    /\ UNCHANGED <<workers, prepared, img_writes, s_ops, writers, files>>

\* lines 203-267: _parameters = new opj_cparameters_t, cp_comment = strdup (...),
\* _cinfo = opj_create_compress (...), _cio = opj_cio_open (...)
setup_blocks == <<"parameters", "cp_comment", "cinfo", "cio">>

local_setup ==
    /\ p_pc = "derived"
    /\ heap' = heap \o [i \in 1..Len(setup_blocks) |-> Block(setup_blocks[i])]
    /\ ptr' = [ptr EXCEPT !.parameters = Len(heap) + 1,
                          !.cp_comment = Len(heap) + 2,
                          !.cinfo = Len(heap) + 3,
                          !.cio = Len(heap) + 4]
    /\ p_pc' = "encode"
    /\ UNCHANGED <<c_vars, max_cs_len, max_comp_size, pixels, l_result, l_err, l_read>>
    /\ UNCHANGED <<w_vars, r_vars>>
    /\ UNCHANGED <<workers, prepared, img_writes, s_ops, writers, files>>

\* lines 269-284: r = opj_encode (...); if (r == 0) throw EncodeError; the log line;
\* return new LocallyEncodedData (_cio->buffer, cio_tell (_cio))
after_opj_encode_logs_failure(r, b, frame, cio) ==
    [pc |-> IF r = 0 THEN "threw" ELSE "returned",
     err |-> IF r = 0 THEN EncodeError("jpeg2000 encoding failed") ELSE NoError,
     result |-> IF r = 0 THEN NoResult ELSE [size |-> Len(b), buffer |-> cio],
     log |-> <<[text |-> "Finished locally-encoded frame", frame |-> frame]>>]

after_opj_encode_ignoring_r(r, b, frame, cio) ==
    [pc |-> "returned",
     err |-> NoError,
     result |-> [size |-> Len(b), buffer |-> cio],
     log |-> <<[text |-> "Finished locally-encoded frame", frame |-> frame]>>]

after_opj_encode(r, b, frame, cio) ==
    IF r = 0
    THEN [pc |-> "threw",
          err |-> EncodeError("jpeg2000 encoding failed"),
          result |-> NoResult,
          log |-> <<>>]
    ELSE [pc |-> "returned",
          err |-> NoError,
          result |-> [size |-> Len(b), buffer |-> cio],
          log |-> <<[text |-> "Finished locally-encoded frame", frame |-> frame]>>]

local_encode ==
    /\ p_pc = "encode"
    /\ \E r \in {0, 1}, b \in CodecOutputs :
         LET a == after_opj_encode(r, b, job.frame, ptr.cio)
         IN  /\ heap' = IF r = 0 THEN heap ELSE [heap EXCEPT ![ptr.cio].bytes = b]
             /\ p_pc' = a.pc
             /\ l_err' = IF r = 0 THEN a.err ELSE l_err
             /\ l_result' = a.result
             /\ log' = log \o a.log
    /\ UNCHANGED <<c_vars, max_cs_len, max_comp_size, ptr, pixels, l_read>>
    /\ UNCHANGED <<w_pc, w_data, w_prev, fs, w_stored, w_err>>
    /\ UNCHANGED <<r_pc, r_plane, ops, c2s, s2c, s_pc, s_enc, s_sent, sock_buf, buffer,
                   e_size, e_data, r_result, r_err>>
    /\ UNCHANGED <<workers, prepared, img_writes, s_ops, writers, files>>

\* lines 125-145: what ~DCPVideoFrame hands to opj_image_destroy, opj_cio_close,
\* opj_destroy_compress, free and delete, in that order
destroyed_blocks_no_comment(p) ==
    (IF p.image # 0 THEN <<p.image>> ELSE <<>>)
    \o (IF p.cio # 0 THEN <<p.cio>> ELSE <<>>)
    \o (IF p.cinfo # 0 THEN <<p.cinfo>> ELSE <<>>)
    \o (IF p.parameters # 0 THEN <<p.cp_matrice, p.parameters>> ELSE <<>>)

destroyed_blocks(p) ==
    (IF p.image # 0 THEN <<p.image>> ELSE <<>>)
    \o (IF p.cio # 0 THEN <<p.cio>> ELSE <<>>)
    \o (IF p.cinfo # 0 THEN <<p.cinfo>> ELSE <<>>)
    \o (IF p.parameters # 0 THEN <<p.cp_comment, p.cp_matrice, p.parameters>> ELSE <<>>)

\* ~DCPVideoFrame: the job is done with; the next job is free to be constructed
local_destroy ==
    /\ job.constructed
    /\ p_pc \in {"returned", "threw"}
    /\ heap' = release_all(heap, destroyed_blocks(ptr))
    /\ ptr' = NullPtrs
    /\ job' = NoJob
    /\ p_pc' = "idle"
    /\ UNCHANGED <<config, max_cs_len, max_comp_size, pixels, l_result, l_err, l_read>>
    /\ UNCHANGED <<w_vars, r_vars>>
    /\ UNCHANGED <<workers, prepared, img_writes, s_ops, writers, files>>

\* What a read of size bytes through data finds: the block's bytes while the block is
\* alive; once it is freed the read is undefined, and finds the old bytes or others
read_through(h, e) ==
    IF h[e.buffer].frees = 0 THEN {h[e.buffer].bytes}
    ELSE {h[e.buffer].bytes} \cup {[i \in 1..e.size |-> v] : v \in ByteValues}

\* line 360, fwrite (_data, 1, _size, f), or line 382, socket->write (_data, _size, 30),
\* on the EncodedData that encode_locally returned
read_result ==
    /\ l_result # NoResult
    /\ l_read = NotRead
    /\ \E b \in read_through(heap, l_result) :
         l_read' = [read |-> TRUE, bytes |-> b, alive |-> heap[l_result.buffer].frees = 0]
    /\ UNCHANGED <<c_vars, p_pc, max_cs_len, max_comp_size, ptr, heap, pixels, l_result, l_err>>
    /\ UNCHANGED <<w_vars, r_vars>>
    /\ UNCHANGED <<workers, prepared, img_writes, s_ops, writers, files>>

---------------------------------------------------------------------------
(* Two jobs encoded at the same time, each by its own thread.  The threads    *)
(* share the allocator (heap), the log and Config, and nothing else.          *)

Workers == {1, 2}

NoWorker == [pc |-> "none"]

\* The jobs of the two threads: two frames, the first of the RGB image, the second
\* of the YUV image
worker_job(w) ==
    DCPVideoFrame(IF w = 1 THEN ImageRGB ELSE ImageYUV, [width |-> 2, height |-> 1], 0,
                  [id |-> 7], IF w = 1 THEN 0 ELSE 12, 24000, <<>>,
                  config.colour_lut_index, config.j2k_bandwidth)

\* lines 77-96: the fields of a DCPVideoFrame, and what its thread holds of it
NewWorker(w) ==
    [pc |-> "idle", job |-> worker_job(w), ptr |-> NullPtrs, acquired |-> <<>>,
     pixels |-> 0, max_cs_len |-> 0, err |-> NoError, result |-> NoResult,
     encoded |-> <<>>, sent |-> <<>>]

\* lines 307-328: the header, its NUL and every plane
RECURSIVE all_planes(_, _)
all_planes(img, i) ==
    IF i > img.components THEN <<>> ELSE plane_bytes(img, i) \o all_planes(img, i + 1)

whole_request(j, cfg) == request_header(j, cfg) \o Nul \o all_planes(j.input, 1)

worker_construct ==
    /\ \E w \in Workers :
         /\ workers[w] = NoWorker
         /\ workers' = [workers EXCEPT ![w] = NewWorker(w)]
    /\ UNCHANGED <<w_vars, c_vars, r_vars, p_vars>>
    /\ UNCHANGED <<prepared, img_writes, s_ops, writers, files>>

\* encode_locally or encode_remotely is entered
worker_call ==
    /\ \E w \in Workers, to \in {"prepare", "send"} :
         /\ workers[w].pc = "idle"
         /\ workers' = [workers EXCEPT ![w].pc = to]
    /\ UNCHANGED <<w_vars, c_vars, r_vars, p_vars>>
    /\ UNCHANGED <<prepared, img_writes, s_ops, writers, files>>

\* lines 153-159
worker_prepare ==
    /\ \E w \in Workers, ok \in BOOLEAN :
         /\ workers[w].pc = "prepare"
         /\ workers' = [workers EXCEPT
                          ![w].pc = IF ok THEN "container" ELSE "threw",
                          ![w].err = IF ok THEN @ ELSE [kind |-> "exception", what |-> "prepare"]]
    /\ UNCHANGED <<w_vars, c_vars, r_vars, p_vars>>
    /\ UNCHANGED <<prepared, img_writes, s_ops, writers, files>>

\* line 161: create_openjpeg_container ()
worker_container ==
    /\ \E w \in Workers, made \in BOOLEAN :
         LET a == after_opj_image_create(made, workers[w].ptr, heap)
         IN  /\ workers[w].pc = "container"
             /\ heap' = a.heap
             /\ workers' = [workers EXCEPT
                              ![w].pc = a.pc,
                              ![w].err = IF made THEN @ ELSE a.err,
                              ![w].ptr = a.ptr,
                              ![w].acquired = IF made THEN Append(@, a.ptr.image) ELSE @]
    /\ UNCHANGED <<w_vars, c_vars, r_vars>>
    /\ UNCHANGED <<p_pc, max_cs_len, max_comp_size, ptr, pixels, l_result, l_err, l_read>>
    /\ UNCHANGED <<prepared, img_writes, s_ops, writers, files>>

\* lines 163-200: the pixel loop and the two sizes
worker_transform ==
    /\ \E w \in Workers :
         LET j == workers[w].job
         IN  /\ workers[w].pc = "transform"
             /\ \E cs \in max_cs_len_values(j.j2k_bandwidth, j.frames_per_second) :
                  workers' = [workers EXCEPT
                                ![w].pc = "derived",
                                ![w].pixels = j.out_size.width * j.out_size.height,
                                ![w].max_cs_len = cs]
    /\ UNCHANGED <<w_vars, c_vars, r_vars, p_vars>>
    /\ UNCHANGED <<prepared, img_writes, s_ops, writers, files>>

\* lines 203-267
worker_setup ==
    /\ \E w \in Workers :
         /\ workers[w].pc = "derived"
         /\ heap' = heap \o [i \in 1..Len(setup_blocks) |-> Block(setup_blocks[i])]
         /\ workers' = [workers EXCEPT
                          ![w].pc = "encode",
                          ![w].ptr = [@ EXCEPT !.parameters = Len(heap) + 1,
                                               !.cp_comment = Len(heap) + 2,
                                               !.cinfo = Len(heap) + 3,
                                               !.cio = Len(heap) + 4],
                          ![w].acquired = @ \o <<Len(heap) + 1, Len(heap) + 2,
                                                 Len(heap) + 3, Len(heap) + 4>>]
    /\ UNCHANGED <<w_vars, c_vars, r_vars>>
    /\ UNCHANGED <<p_pc, max_cs_len, max_comp_size, ptr, pixels, l_result, l_err, l_read>>
    /\ UNCHANGED <<prepared, img_writes, s_ops, writers, files>>

\* lines 269-284
worker_encode ==
    /\ \E w \in Workers, r \in {0, 1}, b \in CodecOutputs :
         LET W == workers[w]
             a == after_opj_encode(r, b, W.job.frame, W.ptr.cio)
         IN  /\ W.pc = "encode"
             /\ heap' = IF r = 0 THEN heap ELSE [heap EXCEPT ![W.ptr.cio].bytes = b]
             /\ log' = log \o a.log
             /\ workers' = [workers EXCEPT
                              ![w].pc = a.pc,
                              ![w].err = IF r = 0 THEN a.err ELSE @,
                              ![w].result = a.result,
                              ![w].encoded = IF r = 0 THEN @ ELSE b]
    /\ UNCHANGED <<w_vars, c_vars>>
    /\ UNCHANGED <<r_pc, r_plane, ops, c2s, s2c, s_pc, s_enc, s_sent, sock_buf, buffer,
                   e_size, e_data, r_result, r_err>>
    /\ UNCHANGED <<p_pc, max_cs_len, max_comp_size, ptr, pixels, l_result, l_err, l_read>>
    /\ UNCHANGED <<prepared, img_writes, s_ops, writers, files>>

\* lines 299-328: the connection of this job, its header and its planes; a write that
\* fails leaves a part of the request on the connection
worker_send ==
    /\ \E w \in Workers, ok \in BOOLEAN :
         LET q == whole_request(workers[w].job, config)
         IN  /\ workers[w].pc = "send"
             /\ \E k \in {0, Len(q) - 1} :
                  workers' = [workers EXCEPT
                                ![w].pc = IF ok THEN "receive" ELSE "threw",
                                ![w].err = IF ok THEN @ ELSE NetworkError("write"),
                                ![w].sent = Socket_write(q, ok, k)]
    /\ UNCHANGED <<w_vars, c_vars, r_vars, p_vars>>
    /\ UNCHANGED <<prepared, img_writes, s_ops, writers, files>>

\* lines 330-348: the answer of this job's server, the log line, the return
worker_receive ==
    /\ \E w \in Workers, ok \in BOOLEAN, b \in CodecOutputs :
         LET a == after_read_definite(ok, Len(b), b, workers[w].job.frame)
         IN  /\ workers[w].pc = "receive"
             /\ log' = log \o a.log
             /\ workers' = [workers EXCEPT
                              ![w].pc = a.pc,
                              ![w].err = IF ok THEN @ ELSE a.err,
                              ![w].result = a.result,
                              ![w].encoded = IF ok THEN b ELSE @]
    /\ UNCHANGED <<w_vars, c_vars, p_vars>>
    /\ UNCHANGED <<r_pc, r_plane, ops, c2s, s2c, s_pc, s_enc, s_sent, sock_buf, buffer,
                   e_size, e_data, r_result, r_err>>
    /\ UNCHANGED <<prepared, img_writes, s_ops, writers, files>>

\* lines 125-145: ~DCPVideoFrame
worker_destroy ==
    /\ \E w \in Workers :
         /\ workers[w].pc \in {"returned", "threw"}
         /\ heap' = release_all(heap, destroyed_blocks(workers[w].ptr))
         /\ workers' = [workers EXCEPT ![w].pc = "destroyed", ![w].ptr = NullPtrs]
    /\ UNCHANGED <<w_vars, c_vars, r_vars>>
    /\ UNCHANGED <<p_pc, max_cs_len, max_comp_size, ptr, pixels, l_result, l_err, l_read>>
    /\ UNCHANGED <<prepared, img_writes, s_ops, writers, files>>

---------------------------------------------------------------------------
(* Two EncodedData::write calls at the same time, each in its own thread, into *)
(* one directory.  A path names a file; an open FILE refers to the file, not   *)
(* to the path, and keeps referring to it when the path is renamed.            *)

\* The frame indices written, and the two values: they differ in every byte and in
\* length, so that the bytes of a file tell whose they are
WriteFrames == {1, 2}
data_of(w) == IF w = 1 THEN <<11, 12>> ELSE <<21, 22, 23>>

NoWriter == [pc |-> "idle", frame |-> 0, f |-> 0, flushed |-> 0, short |-> FALSE,
             err |-> NoError]

\* lines 358, 370: opt->frame_out_path (frame, true) and (frame, false)
frame_out_path_of(frame, tmp) == <<frame, frame_out_path(tmp)>>

FramePaths == {frame_out_path_of(fr, t) : fr \in WriteFrames, t \in BOOLEAN}

\* An empty directory: no path names a file (0), and there are no files
NoFiles == [at |-> [p \in FramePaths |-> 0], bytes |-> <<>>]

\* write (2) of b at offset off of a file holding old: bytes beyond are kept, a gap
\* reads as zeros
WriteAt(old, off, b) ==
    [i \in 1..(IF Len(old) > off + Len(b) THEN Len(old) ELSE off + Len(b)) |->
        IF i > off /\ i <= off + Len(b) THEN b[i - off]
        ELSE IF i <= Len(old) THEN old[i] ELSE 0]

\* write() is entered for some frame
writers_call ==
    /\ \E w \in Workers, fr \in WriteFrames :
         /\ writers[w].pc = "idle"
         /\ writers' = [writers EXCEPT ![w].pc = "fopen", ![w].frame = fr]
    /\ UNCHANGED <<w_vars, c_vars, r_vars, p_vars>>
    /\ UNCHANGED <<workers, prepared, img_writes, s_ops, files>>

\* fopen (path, "wb"): the file the path names is cut to no bytes, or a new file is
\* made and the path names it
fopen_wb(fl, path) ==
    IF fl.at[path] # 0
    THEN [fl EXCEPT !.bytes[fl.at[path]] = <<>>]
    ELSE [at |-> [fl.at EXCEPT ![path] = Len(fl.bytes) + 1], bytes |-> Append(fl.bytes, <<>>)]

\* lines 358-364
writers_fopen ==
    /\ \E w \in Workers :
         LET path == frame_out_path_of(writers[w].frame, TRUE)
         IN  /\ writers[w].pc = "fopen"
             /\ \E o \in {<<TRUE, 0>>} \cup {<<FALSE, en>> : en \in Errnos} :
                  LET a == write_after_fopen(o[1], o[2])
                      opened == fopen_wb(files, path)
                  IN  /\ files' = IF o[1] THEN opened ELSE files
                      /\ writers' = [writers EXCEPT
                                        ![w].pc = a.pc,
                                        ![w].err = a.err,
                                        ![w].f = IF o[1] THEN opened.at[path] ELSE 0]
    /\ UNCHANGED <<w_vars, c_vars, r_vars, p_vars>>
    /\ UNCHANGED <<workers, prepared, img_writes, s_ops>>

\* line 366: fwrite puts the bytes into the FILE's buffer, and may already pass the
\* first k of them to the file
writers_fwrite ==
    /\ \E w \in Workers :
         /\ writers[w].pc = "fwrite"
         /\ \E k \in 0..Len(data_of(w)) :
              /\ files' = [files EXCEPT !.bytes[writers[w].f] =
                               WriteAt(@, 0, Prefix(data_of(w), k))]
              /\ writers' = [writers EXCEPT ![w].pc = "fclose", ![w].flushed = k]
    /\ UNCHANGED <<w_vars, c_vars, r_vars, p_vars>>
    /\ UNCHANGED <<workers, prepared, img_writes, s_ops>>

\* line 367: fclose passes the rest of the buffer to the file, or fails to (its return
\* value is not looked at)
writers_fclose ==
    /\ \E w \in Workers, full \in BOOLEAN :
         LET k == writers[w].flushed
         IN  /\ writers[w].pc = "fclose"
             /\ files' = IF full
                         THEN [files EXCEPT !.bytes[writers[w].f] =
                                  WriteAt(@, k, Drop(data_of(w), k))]
                         ELSE files
             /\ writers' = [writers EXCEPT ![w].pc = "rename", ![w].f = 0,
                                           ![w].short = ~full]
    /\ UNCHANGED <<w_vars, c_vars, r_vars, p_vars>>
    /\ UNCHANGED <<workers, prepared, img_writes, s_ops>>

\* line 370: filesystem::rename (tmp_j2k, final) makes the final path name the file the
\* temporary path names, in one step; it throws when the temporary path names none
writers_rename ==
    /\ \E w \in Workers, ok \in BOOLEAN :
         LET from == frame_out_path_of(writers[w].frame, TRUE)
             to == frame_out_path_of(writers[w].frame, FALSE)
             done == ok /\ files.at[from] # 0
         IN  /\ writers[w].pc = "rename"
             /\ files' = IF done
                         THEN [files EXCEPT !.at[to] = files.at[from], !.at[from] = 0]
                         ELSE files
             /\ writers' = [writers EXCEPT
                               ![w].pc = IF done THEN "returned" ELSE "threw",
                               ![w].err = IF done THEN @
                                          ELSE [kind |-> "filesystem_error",
                                                file |-> frame_out_path(TRUE),
                                                errno |-> IF files.at[from] = 0 THEN 2 ELSE 13]]
    /\ UNCHANGED <<w_vars, c_vars, r_vars, p_vars>>
    /\ UNCHANGED <<workers, prepared, img_writes, s_ops>>

---------------------------------------------------------------------------
(* Specifications *)

w_Idle ==
    /\ w_pc = "idle"
    /\ w_data = <<>>
    /\ w_prev = NoFile
    /\ fs = [tmp |-> NoFile, final |-> NoFile]
    /\ w_stored = 0
    /\ w_err = NoError

c_Idle ==
    /\ config = [colour_lut_index |-> 0, j2k_bandwidth |-> 250000000, changes |-> 0]
    /\ job = NoJob

r_Idle ==
    /\ r_pc = "idle"
    /\ r_plane = 0
    /\ ops = <<>>
    /\ c2s = <<>>
    /\ s2c = <<>>
    /\ s_pc = "wait"
    /\ s_enc = <<>>
    /\ s_sent = <<>>
    /\ sock_buf = <<>>
    /\ buffer = <<>>
    /\ e_size = -1
    /\ e_data = <<>>
    /\ r_result = NoResult
    /\ r_err = NoError
    /\ log = <<>>

t_Idle ==
    /\ files = NoFiles
    /\ writers = [w \in Workers |-> NoWriter]
    /\ s_ops = <<>>
    /\ img_writes = <<>>
    /\ prepared = <<>>
    /\ workers = [w \in Workers |-> NoWorker]

p_Idle ==
    /\ t_Idle
    /\ p_pc = "idle"
    /\ max_cs_len = 0
    /\ max_comp_size = 0
    /\ ptr = NullPtrs
    /\ heap = <<>>
    /\ pixels = 0
    /\ l_result = NoResult
    /\ l_err = NoError
    /\ l_read = NotRead

\* One remote encode of one job, with its server and a changing configuration
Init ==
    /\ c_Idle
    /\ r_Idle
    /\ w_Idle
    /\ p_Idle

Next ==
    \/ construct
    \/ config_changed
    \/ remote_call
    \/ remote_connect
    \/ remote_write_header
    \/ remote_write_plane
    \/ remote_read_indefinite
    \/ remote_new
    \/ remote_read_definite
    \/ server_call
    \/ send_size
    \/ send_data

Spec == Init /\ [][Next]_vars

\* One EncodedData::write of a frame whose final path is absent or holds an earlier file
InitWrite ==
    /\ w_pc = "idle"
    /\ w_data \in Buffers
    /\ w_prev \in {NoFile} \cup {File(b) : b \in Buffers}
    /\ fs = [tmp |-> NoFile, final |-> w_prev]
    /\ w_stored = 0
    /\ w_err = NoError
    /\ c_Idle
    /\ r_Idle
    /\ p_Idle

NextWrite ==
    \/ write_call
    \/ write_fopen
    \/ write_fwrite
    \/ write_fclose
    \/ write_rename
    \/ write_kill

SpecWrite == InitWrite /\ [][NextWrite]_vars

\* One remote encode of one job, and the write() of what it returned
NextReceive ==
    \/ construct
    \/ config_changed
    \/ remote_call
    \/ remote_connect
    \/ remote_write_header
    \/ remote_write_plane
    \/ remote_read_indefinite
    \/ remote_new
    \/ remote_read_definite
    \/ server_call
    \/ send_size
    \/ send_data
    \/ write_received
    \/ write_fopen
    \/ write_fwrite
    \/ write_fclose
    \/ write_rename

SpecReceive == Init /\ [][NextReceive]_vars

\* Jobs of any frame rate and bandwidth, one after another, each encoded locally
InitLocal ==
    /\ c_Idle
    /\ p_Idle
    /\ r_Idle
    /\ w_Idle

NextLocal ==
    \/ construct_local
    \/ local_call
    \/ local_prepare
    \/ local_container
    \/ local_transform
    \/ local_parameters
    \/ local_setup
    \/ local_encode
    \/ local_destroy
    \/ read_result

SpecLocal == InitLocal /\ [][NextLocal]_vars

\* The caller encodes a job once, on a server or on this host
dispatch_remote == remote_call /\ p_pc = "idle"

dispatch_local == local_call /\ r_pc = "idle"

\* One encode of one job, remote or local, with a changing configuration
NextEncode ==
    \/ construct
    \/ config_changed
    \/ dispatch_remote
    \/ remote_connect
    \/ remote_write_header
    \/ remote_write_plane
    \/ remote_read_indefinite
    \/ remote_new
    \/ remote_read_definite
    \/ server_call
    \/ send_size
    \/ send_data
    \/ dispatch_local
    \/ local_prepare
    \/ local_container
    \/ local_transform
    \/ local_parameters
    \/ local_setup
    \/ local_encode

SpecEncode == Init /\ [][NextEncode]_vars

\* Two write() calls at the same time
NextTwoWrites ==
    \/ writers_call
    \/ writers_fopen
    \/ writers_fwrite
    \/ writers_fclose
    \/ writers_rename

SpecTwoWrites == Init /\ [][NextTwoWrites]_vars

\* One remote encode of one job, answered by a server that may send anything
NextAnyServer ==
    \/ construct
    \/ remote_call
    \/ remote_connect
    \/ remote_write_header
    \/ remote_write_plane
    \/ remote_read_indefinite
    \/ remote_new
    \/ remote_new_unterminated
    \/ remote_read_definite
    \/ server_any

SpecAnyServer == Init /\ [][NextAnyServer]_vars

\* Jobs on which encode_locally is called any number of times before they are destroyed
NextRepeat ==
    \/ construct
    \/ local_call_first
    \/ local_call_again
    \/ local_prepare
    \/ local_container
    \/ local_transform
    \/ local_parameters
    \/ local_setup
    \/ local_encode
    \/ local_destroy

SpecRepeat == Init /\ [][NextRepeat]_vars

\* Two jobs, each encoded once by its own thread, locally or on a server
NextTwo ==
    \/ worker_construct
    \/ worker_call
    \/ worker_prepare
    \/ worker_container
    \/ worker_transform
    \/ worker_setup
    \/ worker_encode
    \/ worker_send
    \/ worker_receive
    \/ worker_destroy

SpecTwo == Init /\ [][NextTwo]_vars

---------------------------------------------------------------------------
(* Reading the bytes on the wire, for the properties below *)

\* The text before the first NUL, and what follows that NUL
TextOf(s) == Prefix(s, StrLen(s))
AfterNul(s) == Drop(s, StrLen(s) + 1)

\* The length of the text before the first space
RECURSIVE WordLen(_)
WordLen(s) == IF s = <<>> \/ Head(s) = 32 THEN 0 ELSE 1 + WordLen(Tail(s))

\* The words of a text, split at single spaces
RECURSIVE Tokens(_)
Tokens(s) ==
    IF s = <<>> THEN <<>>
    ELSE <<Prefix(s, WordLen(s))>> \o Tokens(Drop(s, WordLen(s) + 1))

RECURSIVE JoinWith(_, _)
JoinWith(ts, sep) ==
    IF ts = <<>> THEN <<>>
    ELSE IF Len(ts) = 1 THEN ts[1]
    ELSE ts[1] \o sep \o JoinWith(Tail(ts), sep)

RECURSIVE EachFollowedBy(_, _)
EachFollowedBy(ts, sep) ==
    IF ts = <<>> THEN <<>> ELSE ts[1] \o sep \o EachFollowedBy(Tail(ts), sep)

RECURSIVE Concat(_)
Concat(ss) == IF ss = <<>> THEN <<>> ELSE Head(ss) \o Concat(Tail(ss))

\* A well-formed decimal number: digits only, no leading zero but in "0"
IsDecimal(s) ==
    /\ s # <<>>
    /\ \A i \in 1..Len(s) : IsDigit(s[i])
    /\ Len(s) > 1 => s[1] # 48

OkWrites == Cardinality({i \in 1..Len(ops) : ops[i].op = "write" /\ ops[i].ok})

\* Every write of the request has completed
RequestWritten == job.constructed /\ OkWrites = 1 + job.input.components

---------------------------------------------------------------------------
(* EncodedData::write: atomicity and errors *)

\* C1: at every step of write(), and after a kill at any step, the final path either
\* is as it was before the call or holds all the bytes of the buffer.
C1_FinalPathNeverPartial ==
    \/ fs.final = w_prev
    \/ fs.final = File(w_data)

\* C2: write() fails with WriteFileError, carrying the OS error code and the temporary
\* path, when the temporary file cannot be opened or is not written in full: it never
\* goes on past a short fwrite.
C2_OpenOrShortWriteThrows ==
    /\ w_pc \in {"fclose", "rename", "returned"} => w_stored = Len(w_data)
    /\ (w_pc = "threw" /\ ~fs.tmp.exists) =>
          /\ w_err.kind = "WriteFileError"
          /\ w_err.file = "tmp"
          /\ w_err.errno \in Errnos

---------------------------------------------------------------------------
(* DCPVideoFrame::encode_remotely and EncodedData::send: the exchange *)

ExpectedOps(components) ==
    <<"connect">> \o [i \in 1..(1 + components) |-> "write"]
    \o <<"read_indefinite", "consume", "new", "read_definite_and_consume">>

PlanesOf(img) == [i \in 1..img.components |-> SubSeq(img.data[i], 1, img.line_size[i] * img.lines[i])]

IsPrefixOf(s, t) == Len(s) <= Len(t) /\ s = Prefix(t, Len(s))

\* C3: the socket operations of a remote encode come in this order on one connection:
\* connect, one write of the NUL-terminated header, one write per plane in plane order,
\* the indefinite read, the allocation of the buffer of the length read, the definite
\* read of that many bytes; no payload byte is read before every plane is written.
C3_SocketOperationOrder ==
    ops # <<>> =>
      LET n == job.input.components
          planes == PlanesOf(job.input)
      IN  /\ IsPrefixOf([i \in 1..Len(ops) |-> ops[i].op], ExpectedOps(n))
          /\ \A i \in 1..Len(ops) :
               /\ (i = 2 /\ ops[i].ok) =>
                     /\ ops[i].n = StrLen(c2s) + 1
                     /\ HasNul(c2s)
                     /\ IsPrefixOf(AfterNul(c2s), Concat(planes))
               /\ (i > 2 /\ i <= 2 + n) => ops[i].n = Len(planes[i - 2])
               /\ ops[i].op = "new" => ops[i].n = Atoi(TextOf(buffer))
               /\ ops[i].op = "read_definite_and_consume" => ops[i].n = ops[i - 1].n
          /\ e_data # <<>> => OkWrites = 1 + n

C3_Witness ==
    /\ r_pc = "returned"
    /\ job.input.components = 3
    /\ Len(ops) = 9
    /\ Len(e_data) > 0

\* C4: when the server has answered with the decimal text of M, a NUL and M payload
\* bytes, what encode_remotely returns has size M and exactly those payload bytes.
C4_RemoteRoundTrip ==
    (/\ r_pc = "returned"
     /\ HasNul(s_sent)
     /\ IsDecimal(TextOf(s_sent))
     /\ LeadingDigits(TextOf(s_sent), 0) = Len(AfterNul(s_sent)))
    => /\ r_result.size = Len(AfterNul(s_sent))
       /\ r_result.data = AfterNul(s_sent)

C4_Witness ==
    /\ r_pc = "returned"
    /\ r_result.size = LongerLen
    /\ r_result.data = AfterNul(s_sent)
    /\ HasNul(r_result.data)

\* C5: a socket operation of encode_remotely that fails is the last one issued: the
\* call leaves with NetworkError, returns nothing and logs nothing; and what is ever
\* returned holds as many bytes as its size says.
C5_SocketFailureIsNetworkError ==
    /\ \A i \in 1..Len(ops) :
         (~ops[i].ok /\ ops[i].op \notin {"consume", "new"}) =>
            /\ i = Len(ops)
            /\ r_pc = "threw"
            /\ r_err = NetworkError(ops[i].op)
            /\ r_result = NoResult
            /\ log = <<>>
    /\ r_result # NoResult => Len(r_result.data) = r_result.size
    /\ log # <<>> => r_pc = "returned"

C5_Witness ==
    /\ r_pc = "threw"
    /\ r_err = NetworkError("read_definite_and_consume")
    /\ Len(e_data) > 0
    /\ Len(e_data) < e_size
    /\ s_pc = "threw"

\* C6: the lut_index and bandwidth_bps fields of the request header are the values the
\* job was constructed with, whatever the configuration has become since.
C6_HeaderCarriesJobValues ==
    (Len(ops) >= 2 /\ ops[2].ok) =>
       LET t == Tokens(TextOf(c2s))
       IN  /\ t[12] = StreamInt(job.colour_lut_index)
           /\ t[13] = StreamInt(job.j2k_bandwidth)

HeaderFields(j, cfg) ==
    << <<101, 110, 99, 111, 100, 101>>,
       StreamInt(j.input.width), StreamInt(j.input.height), StreamInt(j.input.pixel_format),
       StreamInt(j.out_size.width), StreamInt(j.out_size.height), StreamInt(j.padding),
       StreamInt(j.scaler.id), StreamInt(j.frame), StreamInt(j.frames_per_second),
       IF j.post_process = <<>> THEN <<110, 111, 110, 101>> ELSE j.post_process,
       StreamInt(cfg.colour_lut_index), StreamInt(cfg.j2k_bandwidth) >>
    \o [i \in 1..j.input.components |-> StreamInt(j.input.line_size[i])]

C8_SendFormatAndRelay ==
    /\ s_pc = "returned" =>
          /\ HasNul(s_sent)
          /\ IsDecimal(TextOf(s_sent))
          /\ LeadingDigits(TextOf(s_sent), 0) = Len(s_enc)
          /\ AfterNul(s_sent) = s_enc
    /\ r_pc = "returned" => r_result = [size |-> Len(s_enc), data |-> s_enc]

C8_Witness ==
    /\ s_pc = "returned"
    /\ r_pc = "returned"
    /\ Len(s_enc) >= 10
    /\ Len(TextOf(s_sent)) = 2
    /\ r_result.data = s_enc

---------------------------------------------------------------------------
(* DCPVideoFrame::encode_locally: the codec parameters *)

\* C9 as it is worded: at 24 frames per second and 125000000 bits per second the
\* maximum codestream length is 651041 and the maximum component size is 520833.
C9_ScenarioAsClaimed ==
    (p_pc = "derived" /\ job.frames_per_second = 24 /\ job.j2k_bandwidth = 125000000)
    => (max_cs_len = 651041 /\ max_comp_size = 520833)

\* C9: at 24 frames per second and 125000000 bits per second the maximum codestream
\* length is 651041 and the maximum component size is 520832 (651041 / 1.25 = 520832.8,
\* truncated toward zero).
C9_Scenario ==
    (p_pc = "derived" /\ job.frames_per_second = 24 /\ job.j2k_bandwidth = 125000000)
    => (max_cs_len = 651041 /\ max_comp_size = 520832)

C9_Witness ==
    /\ p_pc = "derived"
    /\ job.frames_per_second = 24
    /\ job.j2k_bandwidth = 125000000
    /\ max_cs_len > 0

\* C10: for every positive bandwidth and frame rate the maximum codestream length is
\* bandwidth / 8 / frame_rate truncated toward zero, the maximum component size is that
\* length / 1.25 truncated toward zero, both from the job's own fields.
C10_ExactTruncatedQuotient ==
    (p_pc = "derived" /\ job.j2k_bandwidth > 0 /\ job.frames_per_second > 0) =>
       /\ max_cs_len = job.j2k_bandwidth \div (8 * job.frames_per_second)
       /\ max_comp_size = (4 * max_cs_len) \div 5

---------------------------------------------------------------------------
(* DCPVideoFrame::encode_locally: invalid parameters, the codec's resources *)

\* C11: when the job's frame rate rounds to 0 or its bandwidth is not positive, the
\* derivation of the codec parameters fails before any division is performed (the
\* job never gets past the derivation) and the job produces no EncodedData.
C11_InvalidParameterBeforeDivision ==
    (job.constructed /\ (job.frames_per_second = 0 \/ job.j2k_bandwidth <= 0)) =>
       /\ p_pc \notin {"derived", "encode", "returned"}
       /\ l_result = NoResult

\* C12: encode_locally returns an EncodedData exactly when the image container was
\* created and the compression returned non-zero (it left a codestream in the writer's
\* buffer, and the EncodedData is that buffer and its length); when the container is
\* not created it throws EncodeError with no pixel transformed and no compressor
\* created; when the compression returns 0 it throws EncodeError and returns nothing.
C12_ReturnsIffContainerAndCompression ==
    /\ p_pc = "returned" =>
          /\ ptr.image # 0
          /\ heap[ptr.cio].bytes # <<>>
          /\ l_result = [size |-> Len(heap[ptr.cio].bytes), buffer |-> ptr.cio]
          /\ l_err = NoError
    /\ (p_pc = "threw" /\ ptr.image # 0 /\ ptr.cio # 0 /\ heap[ptr.cio].bytes # <<>>) => FALSE
    /\ p_pc = "threw" => l_result = NoResult
    /\ (p_pc = "threw" /\ l_err.kind = "EncodeError" /\ ptr.image = 0) =>
          /\ l_err = EncodeError("could not create libopenjpeg image")
          /\ pixels = 0
          /\ ptr.cinfo = 0 /\ ptr.cio = 0
          /\ heap = <<>>
    /\ (p_pc = "threw" /\ ptr.cio # 0) =>
          /\ l_err = EncodeError("jpeg2000 encoding failed")
          /\ heap[ptr.cio].bytes = <<>>

C12_Witness ==
    /\ p_pc = "returned"
    /\ l_result # NoResult
    /\ l_result.size = LongLen
    /\ pixels = 2

\* The kinds of the blocks acquired so far, in the order of their acquisition
HeapKinds == [i \in 1..Len(heap) |-> heap[i].kind]

\* C13: on every exit path of a local encode (success, EncodeError from the container,
\* EncodeError from the compression, exception from post-process/scale) every codec
\* resource that was acquired is released exactly once by the time the job is
\* destroyed, none is ever released twice, and the blocks are those the path acquired:
\* none before the container exists, the image alone before the set-up, all five after.
C13_ResourcesReleasedOnce ==
    /\ \A i \in 1..Len(heap) : heap[i].frees <= 1
    /\ ~job.constructed => \A i \in 1..Len(heap) : heap[i].frees = 1
    /\ HeapKinds \in {<<>>, <<"image">>,
                      <<"image", "parameters", "cp_comment", "cinfo", "cio">>}
    /\ (p_pc = "threw" /\ ptr.image = 0) => heap = <<>>
    /\ (p_pc = "threw" /\ ptr.image # 0) => Len(heap) = 5
    /\ p_pc = "returned" => Len(heap) = 5

C13_Witness ==
    /\ ~job.constructed
    /\ l_err = EncodeError("jpeg2000 encoding failed")
    /\ Len(heap) = 5
    /\ \A i \in 1..Len(heap) : heap[i].frees = 1

\* The blocks of the compression context and of the codestream writer
CompressorBlocks == {i \in 1..Len(heap) : heap[i].kind \in {"cinfo", "cio"}}

\* C14 as it is worded: once encode_locally has returned or thrown, the compression
\* context and the codestream writer it created have been torn down.
C14_TornDownBeforeReturn ==
    p_pc \in {"returned", "threw"} => \A i \in CompressorBlocks : heap[i].frees >= 1

\* C14: the compression context and the codestream writer created by a local encode
\* are torn down when the job is destroyed, after a success as after a failure; until
\* then, and so after encode_locally has returned, they are alive.
C14_TornDownAtDestruction ==
    /\ ~job.constructed => \A i \in CompressorBlocks : heap[i].frees = 1
    /\ job.constructed => \A i \in CompressorBlocks : heap[i].frees = 0

C14_Witness ==
    /\ ~job.constructed
    /\ l_result # NoResult
    /\ CompressorBlocks # {}
    /\ \A i \in CompressorBlocks : heap[i].frees = 1

\* C15: whatever the order of the job's destruction and the write() or send() of the
\* EncodedData that encode_locally returned, the bytes read are those of a buffer that
\* is still alive, and are the codestream.
C15_ReadOnlyWhileAlive ==
    l_read # NotRead =>
       /\ l_read.alive
       /\ l_read.bytes = heap[l_result.buffer].bytes

---------------------------------------------------------------------------
(* EncodedData::write: what a return and a failed rename leave *)

\* C16: after write() has returned, the final path holds exactly the bytes of the
\* buffer, all of them and in order, and the temporary path no longer exists.
C16_ReturnLeavesWholeFile ==
    w_pc = "returned" =>
       /\ fs.final = File(w_data)
       /\ ~fs.tmp.exists

\* C17: when the rename of the temporary file fails (write() throws and the temporary
\* file is still there), write() leaves with a WriteFileError that carries the error code.
C17_RenameFailureIsWriteFileError ==
    (w_pc = "threw" /\ fs.tmp.exists) =>
       /\ w_err.kind = "WriteFileError"
       /\ w_err.errno \in Errnos

---------------------------------------------------------------------------
(* Socket operations, lengths, the log *)

\* The bytes of the writes of the client that reported success
RECURSIVE OkWriteBytes(_)
OkWriteBytes(o) ==
    IF o = <<>> THEN 0
    ELSE (IF Head(o).op = "write" /\ Head(o).ok THEN Head(o).n ELSE 0) + OkWriteBytes(Tail(o))

SocketOps == {"connect", "write", "read_indefinite", "read_definite_and_consume"}

\* C18: every socket operation completes in full or fails with NetworkError. The bytes
\* on the connection are those of the writes that succeeded, whole, plus a strict part
\* of a write that failed; a successful indefinite read has a NUL or the whole buffer; a
\* definite read succeeds exactly when it filled all the bytes asked for; a failure is
\* a NetworkError that ends the call with no result; the server's send likewise puts
\* the whole header and the whole payload on the connection or fails.
C18_SocketAllOrError ==
    /\ \A i \in 1..Len(ops) :
         (ops[i].op \in SocketOps /\ ~ops[i].ok) =>
            /\ i = Len(ops)
            /\ r_pc = "threw"
            /\ r_err = NetworkError(ops[i].op)
            /\ r_result = NoResult
    /\ IF ops # <<>> /\ ops[Len(ops)].op = "write" /\ ~ops[Len(ops)].ok
       THEN /\ Len(c2s) >= OkWriteBytes(ops)
            /\ Len(c2s) < OkWriteBytes(ops) + ops[Len(ops)].n
       ELSE Len(c2s) = OkWriteBytes(ops)
    /\ \A i \in 1..Len(ops) :
         (ops[i].op = "read_indefinite" /\ ops[i].ok) =>
            (HasNul(buffer) \/ Len(buffer) = sizeof_buffer)
    /\ \A i \in 1..Len(ops) :
         ops[i].op = "read_definite_and_consume" =>
            /\ ops[i].ok <=> Len(e_data) = e_size
            /\ Len(e_data) <= e_size
    /\ r_result # NoResult => \A i \in 1..Len(ops) : ops[i].ok
    /\ s_pc = "send_data" => s_sent = send_header(Len(s_enc))
    /\ s_pc = "returned" => s_sent = send_header(Len(s_enc)) \o s_enc
    /\ s_pc = "threw" => Len(s_sent) < Len(send_header(Len(s_enc)) \o s_enc)

C18_Witness ==
    /\ r_pc = "threw"
    /\ r_err = NetworkError("write")
    /\ Len(ops) = 3
    /\ Len(c2s) > OkWriteBytes(ops)

RemoteLine == [text |-> "Finished remotely-encoded frame", frame |-> job.frame]
LocalLine == [text |-> "Finished locally-encoded frame", frame |-> job.frame]

\* C20: an encode that has returned has written exactly one log line, which names the
\* frame of the job; no line is written before the data is complete (the compression
\* left its codestream, respectively every byte of the payload was received), none by
\* an encode that failed or has not finished; and no file is touched by an encode.
C20_OneLineAfterCompletion ==
    /\ r_pc = "returned" => log = <<RemoteLine>>
    /\ p_pc = "returned" => log = <<LocalLine>>
    /\ (r_pc # "returned" /\ p_pc # "returned") => log = <<>>
    /\ (log # <<>> /\ r_pc = "returned") =>
          /\ Len(e_data) = e_size
          /\ r_result = [size |-> e_size, data |-> e_data]
    /\ (log # <<>> /\ p_pc = "returned") =>
          /\ heap[ptr.cio].bytes # <<>>
          /\ l_result = [size |-> Len(heap[ptr.cio].bytes), buffer |-> ptr.cio]
    /\ fs = [tmp |-> NoFile, final |-> NoFile]

C20_Witness ==
    /\ p_pc = "returned"
    /\ job.frame = 12
    /\ log = <<LocalLine>>
    /\ l_result.size = LongLen

---------------------------------------------------------------------------
(* Two jobs at the same time *)

Range(s) == {s[i] : i \in 1..Len(s)}

LinesOfFrame(f) == Cardinality({i \in 1..Len(log) : log[i].frame = f})

\* C21: of two jobs encoded at the same time, under every interleaving, each keeps its
\* own fields, owns the blocks it acquired and no block of the other, has those blocks
\* alive until it is destroyed itself and released once after, sends its own request
\* or a part of it, returns the data its own encode produced, and has its own log line
\* exactly when it returned; the heap holds only blocks that one of the two acquired.
C21_JobsIndependent ==
    /\ \A w \in Workers :
         LET W == workers[w]
         IN  W # NoWorker =>
               /\ W.job = worker_job(w)
               /\ \A i \in Range(W.acquired) :
                    heap[i].frees = IF W.pc = "destroyed" THEN 1 ELSE 0
               /\ [i \in 1..Len(W.acquired) |-> heap[W.acquired[i]].kind]
                     \in {<<>>, <<"image">>,
                          <<"image", "parameters", "cp_comment", "cinfo", "cio">>}
               /\ \A v \in Workers \ {w} :
                    workers[v] # NoWorker => Range(W.acquired) \cap Range(workers[v].acquired) = {}
               /\ (W.result # NoResult /\ W.acquired # <<>>) =>
                     /\ W.result.buffer \in Range(W.acquired)
                     /\ heap[W.result.buffer].bytes = W.encoded
                     /\ W.result.size = Len(W.encoded)
               /\ (W.result # NoResult /\ W.acquired = <<>>) =>
                     W.result = [size |-> Len(W.encoded), data |-> W.encoded]
               /\ IsPrefixOf(W.sent, whole_request(W.job, config))
               /\ W.pc = "receive" => W.sent = whole_request(W.job, config)
               /\ LinesOfFrame(W.job.frame) = IF W.result # NoResult THEN 1 ELSE 0
    /\ \A i \in 1..Len(heap) :
         \E w \in Workers : workers[w] # NoWorker /\ i \in Range(workers[w].acquired)

C21_Witness ==
    /\ workers[1].pc = "returned"
    /\ workers[2].pc = "destroyed"
    /\ workers[1].acquired = <<1, 3, 4, 5, 6>>
    /\ workers[2].acquired = <<2, 7, 8, 9, 10>>
    /\ workers[2].result # NoResult

---------------------------------------------------------------------------
(* The colour transform *)

\* The three bytes of the prepared image that a pass of the loop read
TripleOf(e) == [c \in 1..3 |-> prepared[e.read[c] + 1]]

C25_EveryPixelOnce ==
    p_pc \in {"derive", "derived", "encode", "returned"} =>
       /\ Len(img_writes) = job.out_size.width * job.out_size.height
       /\ pixels = Len(img_writes)
       /\ \A k \in 1..Len(img_writes) :
            LET e == img_writes[k]
            IN  /\ e.i = k - 1
                /\ e.read = <<3 * e.i, 3 * e.i + 1, 3 * e.i + 2>>
                /\ \A c \in 1..3 :
                     /\ e.index[c] = prepared[e.read[c] + 1] * 16
                     /\ e.index[c] \in 0..4080
                     /\ e.index[c] < COLOR_DEPTH

C25_Witness ==
    /\ p_pc = "derive"
    /\ job.out_size = [width |-> 4, height |-> 3]
    /\ Len(img_writes) = 12
    /\ img_writes[12].read = <<33, 34, 35>>
    /\ img_writes[1].index = <<4080, 4080, 4080>>
    /\ img_writes[2].index = <<0, 0, 0>>

---------------------------------------------------------------------------
(* Timeouts *)

\* C23: every socket operation that encode_remotely issues (connect, the write of the
\* header, the write of each plane, the indefinite read, the definite read) and every
\* one that send issues (the write of the length, the write of the payload) is given
\* the timeout 30.
C23_OneTimeout ==
    /\ \A i \in 1..Len(ops) : ops[i].op \in SocketOps => ops[i].timeout = 30
    /\ \A i \in 1..Len(s_ops) : s_ops[i].timeout = 30
    /\ Len(s_ops) <= 2

C23_Witness ==
    /\ r_pc = "returned"
    /\ s_pc = "returned"
    /\ Len(s_ops) = 2
    /\ Cardinality({ops[i].op : i \in 1..Len(ops)} \cap SocketOps) = 4
    /\ job.input.components = 3

---------------------------------------------------------------------------
(* EncodedData::write: a failed write and the final path *)

\* C24: when write() fails, because the temporary file could not be opened or because
\* fwrite stored fewer bytes than the buffer holds, no rename is performed: the final
\* path is as it was before the call.
C24_FailureLeavesFinalPath ==
    \/ (w_pc = "threw" /\ w_err.kind = "WriteFileError")
    \/ (w_pc \in {"fclose", "rename", "returned", "threw", "killed"} /\ w_stored < Len(w_data))
    => fs.final = w_prev

---------------------------------------------------------------------------
(* encode_locally called more than once on a job *)

\* C26: however many times encode_locally was called on a job, once the job is
\* destroyed every block that any of the calls acquired has been released exactly once.
C26_NoLeakAfterRepeatedCalls ==
    /\ \A i \in 1..Len(heap) : heap[i].frees <= 1
    /\ (~job.constructed /\ p_pc = "idle") => \A i \in 1..Len(heap) : heap[i].frees = 1

---------------------------------------------------------------------------
(* The response header: the 32 bytes of buffer, headers that are no number *)

\* C27: whatever the server answers, the bytes that encode_remotely scans for the
\* terminator of the header and the bytes it consumes for the header (its length + 1)
\* are at most the 32 of buffer.
C27_HeaderWithinBuffer ==
    \A i \in 1..Len(ops) :
       ops[i].op = "consume" =>
          /\ ops[i].n <= sizeof_buffer
          /\ ops[i].n = StrLen(buffer) + 1
          /\ HasNul(buffer)

\* The header of the answer is one or more digits and nothing else
WellFormedHeader(h) == h # <<>> /\ \A i \in 1..Len(h) : IsDigit(h[i])

\* C28: encode_remotely returns an EncodedData only when the header of the answer is a
\* well-formed decimal number, not negative; it never asks for a buffer of negative size.
C28_OnlyWellFormedHeaderReturns ==
    /\ r_pc = "returned" =>
          /\ HasNul(s_sent)
          /\ WellFormedHeader(TextOf(s_sent))
    /\ \A i \in 1..Len(ops) : ops[i].op = "new" => ops[i].n >= 0

---------------------------------------------------------------------------
(* The divisor of the rate target *)

\* C29: for every job with a positive bandwidth and a positive frame rate that reaches
\* the compression step, the max codestream length is at least 1, so max_cs_len * 8,
\* the divisor of tcp_rates[0], is not zero.
C29_RateDivisorNotZero ==
    (/\ p_pc \in {"derived", "encode", "returned"}
     /\ job.j2k_bandwidth > 0
     /\ job.frames_per_second > 0)
       => /\ max_cs_len >= 1
          /\ max_cs_len * 8 # 0

---------------------------------------------------------------------------
(* Two writes at the same time *)

\* The bytes of the file a path names
bytes_at(path) == files.bytes[files.at[path]]

\* C30: when two write() calls run at the same time and neither's bytes are cut short
\* by the file system, the final path of a frame, whenever it exists, holds all the
\* bytes of one of the values written for that frame and nothing else; and a path of a
\* frame names a file only if a write() for that frame has opened one.
C30_FinalPathHoldsOneValue ==
    /\ (\A w \in Workers : ~writers[w].short) =>
          \A fr \in WriteFrames :
             files.at[frame_out_path_of(fr, FALSE)] # 0 =>
                \E w \in Workers :
                   /\ writers[w].frame = fr
                   /\ bytes_at(frame_out_path_of(fr, FALSE)) = data_of(w)
    /\ \A path \in FramePaths :
          files.at[path] # 0 =>
             \E w \in Workers :
                /\ writers[w].frame = path[1]
                /\ writers[w].pc \in {"fwrite", "fclose", "rename", "returned", "threw"}

====
